---- MODULE Spec2Model ----
(***************************************************************************)
(* A model of package sysdlog (src/sysdlog/sysdlog.go): one Sysdlog value, *)
(* the unixgram endpoint "/dev/log" it dials, and the goroutines that call *)
(* its logging methods and Close.                                          *)
(*                                                                         *)
(* Strings and byte slices are sequences of one-character strings, so that *)
(* strings.HasSuffix, len and the "%s %s%s%s" concatenation are computed.  *)
(***************************************************************************)
EXTENDS Integers, Sequences, FiniteSets, TLC

\* ------------------------------------------------------------------ bounds
\* Number of goroutines sharing the Sysdlog.
NumThreads == 2
\* Total number of logging calls begun on the Sysdlog.
MaxCalls == 2
\* Number of incarnations of the daemon behind /dev/log.
MaxEpoch == 2
\* A cap on the writes and dials of one call (the code reaches 2).
MaxSteps == 4

Threads == 1..NumThreads

\* ------------------------------------------------------------------ data
LOG_EMERG   == <<"<", "0", ">">>
LOG_ALERT   == <<"<", "1", ">">>
LOG_CRIT    == <<"<", "2", ">">>
LOG_ERR     == <<"<", "3", ">">>
LOG_WARNING == <<"<", "4", ">">>
LOG_NOTICE  == <<"<", "5", ">">>
LOG_INFO    == <<"<", "6", ">">>
LOG_DEBUG   == <<"<", "7", ">">>

\* The logging methods: the severity each passes to writeRetry, whether it
\* runs fmt.Sprintf first, and whether it returns writeRetry's count (Write).
Methods ==
    { [name |-> "Write",    sev |-> LOG_ERR,     f |-> FALSE, n |-> TRUE ],
      [name |-> "Emerg",    sev |-> LOG_EMERG,   f |-> FALSE, n |-> FALSE],
      [name |-> "Alert",    sev |-> LOG_ALERT,   f |-> FALSE, n |-> FALSE],
      [name |-> "Crit",     sev |-> LOG_CRIT,    f |-> FALSE, n |-> FALSE],
      [name |-> "Err",      sev |-> LOG_ERR,     f |-> FALSE, n |-> FALSE],
      [name |-> "Warning",  sev |-> LOG_WARNING, f |-> FALSE, n |-> FALSE],
      [name |-> "Notice",   sev |-> LOG_NOTICE,  f |-> FALSE, n |-> FALSE],
      [name |-> "Info",     sev |-> LOG_INFO,    f |-> FALSE, n |-> FALSE],
      [name |-> "Debug",    sev |-> LOG_DEBUG,   f |-> FALSE, n |-> FALSE],
      [name |-> "Emergf",   sev |-> LOG_EMERG,   f |-> TRUE,  n |-> FALSE],
      [name |-> "Alertf",   sev |-> LOG_ALERT,   f |-> TRUE,  n |-> FALSE],
      [name |-> "Critf",    sev |-> LOG_CRIT,    f |-> TRUE,  n |-> FALSE],
      [name |-> "Errf",     sev |-> LOG_ERR,     f |-> TRUE,  n |-> FALSE],
      [name |-> "Warningf", sev |-> LOG_WARNING, f |-> TRUE,  n |-> FALSE],
      [name |-> "Noticef",  sev |-> LOG_NOTICE,  f |-> TRUE,  n |-> FALSE],
      [name |-> "Infof",    sev |-> LOG_INFO,    f |-> TRUE,  n |-> FALSE],
      [name |-> "Debugf",   sev |-> LOG_DEBUG,   f |-> TRUE,  n |-> FALSE] }

\* A variant of Method: every method passing LOG_ERR.
Method_AllErr(nm) == [(CHOOSE o \in Methods : o.name = nm) EXCEPT !.sev = LOG_ERR]

Method(nm) == CHOOSE o \in Methods : o.name = nm

\* Inputs of the concurrent specification: the guard, the reconnect sequence
\* and Close do not read the severity or the message, so two calls stand for
\* the rest: one that wants a newline appended and one, through Write, that
\* brings its own.
ConcCalls == { [name |-> "Info", m |-> <<"a">>],
               [name |-> "Write", m |-> <<"b", "\n">>] }
Prefixes == { <<>>, <<"[", "p", "]", " ">> }

\* Inputs of the sequential specification. The tag depends on the method
\* alone and the newline on the message alone, so every method is called with
\* one message and two methods (and the log.Logger) with every message; the
\* same for the formatted methods and their formats.
SeqPrefixes == { <<>>, <<"[", "a", "p", "p", "]", " ">>, <<"x", "\n">> }
SeqMsgs == { <<>>, <<"a">>, <<"a", "\n">>, <<"\n">>, <<"a", "\n", "\n">>,
             <<"h", "e", "l", "l", "o">> }
SeqFormats == { <<"%", "s">>, <<"%", "d", "\n">>, <<"%", "q", "%", "%", "%", "X">>,
                <<"%">> }
SeqArgs == { <<>>, << <<"a">> >>, << <<"a">>, <<"b", "\n">> >> }
PlainNames == {o.name : o \in {q \in Methods : ~q.f}}
FormatNames == {o.name : o \in {q \in Methods : q.f}}
SeqCalls ==
    [name : PlainNames, m : {<<"a">>}] \cup [name : {"Info", "Write"}, m : SeqMsgs]
SeqFCalls ==
    [name : FormatNames, f : {<<"%", "s">>}, a : {<< <<"a">> >>}]
        \cup [name : {"Infof"}, f : SeqFormats, a : SeqArgs]

\* ------------------------------------------------------------------ state
VARIABLES
    made,      \* how the Sysdlog came to be: "none", "New", "NewLogger" (it is
               \* the output of a log.Logger), "zero" (a Sysdlog{} literal),
               \* "failed" (the constructor returned nil and an error)
    ctor,      \* the last constructor call and its prefix argument (history)
    prefix,    \* sdl.prefix
    conn,      \* sdl.conn: 0 is nil, i > 0 is the socket socks[i]
    mu,        \* sdl.mu: 0 is unlocked, t is locked by goroutine t
    socks,     \* every socket dialed: the daemon incarnation it is connected
               \* to and whether Close was called on it
    up,        \* a daemon is bound to /dev/log
    epoch,     \* the incarnation of that daemon
    wire,      \* the datagrams the daemon received, in order; "by" is the
               \* number of the call that sent it (history)
    stdout,    \* the lines printed to standard output
    pc,        \* per goroutine: its place in writeRetry
    cur,       \* per goroutine: its current (or last) call and what it did
    ncalls,    \* calls begun so far
    ndial,     \* invocations of connect on this Sysdlog (history)
    panicked   \* the process died of a nil dereference

vars == <<made, ctor, prefix, conn, mu, socks, up, epoch, wire, stdout, pc, cur,
          ncalls, ndial, panicked>>

NoCall == [name |-> "", m |-> <<>>, k |-> 0, ev |-> <<>>, h0 |-> 0,
           st0 |-> "", sawUp |-> FALSE, sawDown |-> FALSE,
           n |-> 0, err |-> "nil", ret |-> FALSE]

Init ==
    /\ made = "none"
    /\ ctor = [fn |-> "", arg |-> <<>>]
    /\ prefix = <<>>
    /\ conn = 0
    /\ mu = 0
    /\ socks = <<>>
    /\ up = TRUE
    /\ epoch = 1
    /\ wire = <<>>
    /\ stdout = <<>>
    /\ pc = [t \in Threads |-> "idle"]
    /\ cur = [t \in Threads |-> NoCall]
    /\ ncalls = 0
    /\ ndial = 0
    /\ panicked = FALSE

\* ------------------------------------------------------------------ helpers
\* A variant of HasSuffixNL: the suffix never found.
HasSuffixNL_Never(m) == FALSE

\* strings.HasSuffix(m, "\n")
HasSuffixNL(m) == Len(m) > 0 /\ m[Len(m)] = "\n"

\* A variant of Frame: the prefix left out of the format.
Frame_NoPrefix(s, p, m) ==
    s \o <<" ">> \o m \o (IF Len(m) > 0 /\ m[Len(m)] = "\n" THEN <<>> ELSE <<"\n">>)

\* The bytes fmt.Fprintf(sdl.conn, "%s %s%s%s", s, sdl.prefix, m, nl) formats.
Frame(s, p, m) ==
    LET nl == IF ~HasSuffixNL(m) THEN <<"\n">> ELSE <<>>
    IN  s \o <<" ">> \o p \o m \o nl

\* fmt.Sprintf(format, v...) for operands of type string made of printable
\* ASCII, newline, tab and carriage return, and for directives without flags,
\* width, precision or argument index (FormatModelled):
\*   %%  a percent sign;  %s %v  the operand;  %q  the operand quoted as by
\*   strconv.Quote;  %x %X  the operand's bytes in hexadecimal;  %T  "string";
\*   any other verb c  %!c(string=operand);
\*   a verb c when the operands are used up  %!c(MISSING);
\*   a % that ends the format  %!(NOVERB);
\*   and after the format, the operands no directive used
\*   %!(EXTRA string=..., string=...).
\* The characters with byte values 32 .. 95 and 97 .. 126, in order (a string
\* of this notation cannot hold the character 96, the backquote).
AsciiLow ==
    <<" ", "!", "\"", "#", "$", "%", "&", "'", "(", ")", "*", "+",
      ",", "-", ".", "/", "0", "1", "2", "3", "4", "5", "6", "7",
      "8", "9", ":", ";", "<", "=", ">", "?", "@", "A", "B", "C",
      "D", "E", "F", "G", "H", "I", "J", "K", "L", "M", "N", "O",
      "P", "Q", "R", "S", "T", "U", "V", "W", "X", "Y", "Z", "[",
      "\\", "]", "^", "_">>
AsciiHigh ==
    <<"a", "b", "c", "d", "e", "f", "g", "h", "i", "j", "k", "l",
      "m", "n", "o", "p", "q", "r", "s", "t", "u", "v", "w", "x",
      "y", "z", "{", "|", "}", "~">>

\* The byte value of a character.
Code(c) ==
    IF c = "\n" THEN 10
    ELSE IF c = "\t" THEN 9
    ELSE IF c = "\r" THEN 13
    ELSE IF \E i \in DOMAIN AsciiLow : AsciiLow[i] = c
    THEN 31 + (CHOOSE i \in DOMAIN AsciiLow : AsciiLow[i] = c)
    ELSE 96 + (CHOOSE i \in DOMAIN AsciiHigh : AsciiHigh[i] = c)

HexLower == <<"0", "1", "2", "3", "4", "5", "6", "7", "8", "9",
              "a", "b", "c", "d", "e", "f">>
HexUpper == <<"0", "1", "2", "3", "4", "5", "6", "7", "8", "9",
              "A", "B", "C", "D", "E", "F">>

\* fmtSx: two hexadecimal digits for every byte of s.
RECURSIVE SprintfHex(_, _)
SprintfHex(s, digits) ==
    IF s = <<>> THEN <<>>
    ELSE <<digits[(Code(s[1]) \div 16) + 1], digits[(Code(s[1]) % 16) + 1]>>
         \o SprintfHex(Tail(s), digits)

\* The inside of strconv.Quote(s).
RECURSIVE QuoteBody(_)
QuoteBody(s) ==
    IF s = <<>> THEN <<>>
    ELSE (CASE s[1] = "\"" -> <<"\\", "\"">>
            [] s[1] = "\\" -> <<"\\", "\\">>
            [] s[1] = "\n" -> <<"\\", "n">>
            [] s[1] = "\t" -> <<"\\", "t">>
            [] s[1] = "\r" -> <<"\\", "r">>
            [] OTHER -> <<s[1]>>)
         \o QuoteBody(Tail(s))

\* printArg for a string operand x and verb c.
SprintfArg(c, x) ==
    CASE c \in {"s", "v"} -> x
      [] c = "q" -> <<"\"">> \o QuoteBody(x) \o <<"\"">>
      [] c = "x" -> SprintfHex(x, HexLower)
      [] c = "X" -> SprintfHex(x, HexUpper)
      [] c = "T" -> <<"s", "t", "r", "i", "n", "g">>
      [] OTHER -> <<"%", "!", c, "(">> \o <<"s", "t", "r", "i", "n", "g", "=">> \o x \o <<")">>

RECURSIVE SprintfExtra(_, _)
SprintfExtra(a, j) ==
    IF j > Len(a) THEN <<")">>
    ELSE (IF j > 1 THEN <<",", " ">> ELSE <<>>)
         \o <<"s", "t", "r", "i", "n", "g", "=">> \o a[j] \o SprintfExtra(a, j + 1)

\* doPrintf from position i of the format, operand j being the next one.
RECURSIVE SprintfFrom(_, _, _, _)
SprintfFrom(f, i, a, j) ==
    IF i > Len(f)
    THEN IF j <= Len(a)
         THEN <<"%", "!", "(", "E", "X", "T", "R", "A", " ">> \o SprintfExtra(SubSeq(a, j, Len(a)), 1)
         ELSE <<>>
    ELSE IF f[i] # "%"
    THEN <<f[i]>> \o SprintfFrom(f, i + 1, a, j)
    ELSE IF i = Len(f)
    THEN <<"%", "!", "(", "N", "O", "V", "E", "R", "B", ")">> \o SprintfFrom(f, i + 1, a, j)
    ELSE IF f[i + 1] = "%"
    THEN <<"%">> \o SprintfFrom(f, i + 2, a, j)
    ELSE IF j > Len(a)
    THEN <<"%", "!", f[i + 1]>> \o <<"(", "M", "I", "S", "S", "I", "N", "G", ")">> \o SprintfFrom(f, i + 2, a, j)
    ELSE SprintfArg(f[i + 1], a[j]) \o SprintfFrom(f, i + 2, a, j + 1)

Sprintf(f, a) == SprintfFrom(f, 1, a, 1)

\* The characters that after a % start flags, a width, a precision or an
\* argument index instead of being the verb.
FlagChars == {"+", "-", "#", " ", "0", "1", "2", "3", "4", "5", "6", "7", "8",
              "9", ".", "*", "["}

\* The format has only directives that Sprintf above computes.
RECURSIVE FormatModelledFrom(_, _)
FormatModelledFrom(f, i) ==
    IF i >= Len(f) THEN TRUE
    ELSE IF f[i] # "%" THEN FormatModelledFrom(f, i + 1)
    ELSE f[i + 1] \notin FlagChars /\ FormatModelledFrom(f, i + 2)

FormatModelled(f) == FormatModelledFrom(f, 1)

\* conn.Write on socket c delivers its datagram: the socket is not closed and
\* the daemon it is connected to is still the one bound to /dev/log.
ConnWriteOk(c) ==
    /\ ~socks[c].closed
    /\ up
    /\ socks[c].epoch = epoch

\* State of a stored handle, as the transport sees it.
Status(c) ==
    IF c = 0 THEN "nil"
    ELSE IF socks[c].closed THEN "closed"
    ELSE IF ConnWriteOk(c) THEN "open"
    ELSE "stale"

\* A variant of WriteResult: the count of fmt.Fprintf, framing included.
WriteResult_FrameLen(m, ok) ==
    [n |-> Len(LOG_ERR) + 1 + Len(prefix) + Len(m) + 1, err |-> "nil"]

\* A variant of WriteResult: the error of fmt.Fprintf reported.
WriteResult_Reports(m, ok) ==
    IF ok THEN [n |-> Len(m), err |-> "nil"] ELSE [n |-> 0, err |-> "write"]

\* What write returns, given whether the transport took the frame: the result
\* of fmt.Fprintf is discarded.
WriteResult(m, ok) == [n |-> Len(m), err |-> "nil"]

\* net.Dial("unixgram", "/dev/log") succeeds when a daemon is bound.
DialOk == up

\* A variant of CanLock: Lock that does not wait for the holder.
CanLock_NoWait(t) == TRUE

\* sync.Mutex.Lock proceeds when the mutex is unlocked.
CanLock(t) == mu = 0

\* A variant of AfterFirst: the test of the first write's error inverted.
AfterFirst_Inverted(present, r) ==
    IF present /\ r.err # "nil" THEN "ret" ELSE "connect"

\* writeRetry line 185-189: after the test of sdl.conn and the first write.
AfterFirst(present, r) ==
    IF present /\ r.err = "nil" THEN "ret" ELSE "connect"

\* A variant of AfterConnect: dialing again when the dial failed.
AfterConnect_Redial(ok) == IF ok THEN "retry" ELSE "connect"

\* writeRetry line 193-198: after connect.
AfterConnect(ok) == IF ok THEN "retry" ELSE "ret"

\* A variant of ConnectFail: the error of connect dropped.
ConnectFail_NoError == [n |-> 0, err |-> "nil"]

\* writeRetry line 194: what is returned when connect failed.
ConnectFail == [n |-> 0, err |-> "dial"]

\* A variant of AfterRetry: back to the test of sdl.conn.
AfterRetry_Again(r) == "check"

\* writeRetry line 198: the second write's result is returned.
AfterRetry(r) == "ret"

\* A variant of MuAfterReturn: no Unlock on the error return.
MuAfterReturn_ErrKeeps(t, err) == IF err # "nil" THEN t ELSE 0

\* The deferred sdl.mu.Unlock() of line 182 runs on every return.
MuAfterReturn(t, err) == 0

WriteEv(c, ok) == [k |-> "write", c |-> c, ok |-> ok]
DialEv(c, ok)  == [k |-> "dial",  c |-> c, ok |-> ok]

\* fmt.Println("prefix:", sdl.prefix)
PrefixLine(p) == <<"p", "r", "e", "f", "i", "x", ":", " ">> \o p \o <<"\n">>

InCall(t) == pc[t] \in {"check", "connect", "retry"}

\* ------------------------------------------------------------------ actions
\* A variant of NewReturns: the Sysdlog is returned whatever connect said.
NewReturns_Always(ok) == TRUE

\* New lines 53-57: the Sysdlog is returned when connect reported no error,
\* nil and the error otherwise.
NewReturns(ok) == ok

\* The body of New(p), called as fn ("New", or "NewLogger" through line 63):
\* builds the Sysdlog with prefix p and dials once.
Construct(fn, p) ==
    /\ made \in {"none", "failed"}
    /\ ~panicked
    /\ ctor' = [fn |-> fn, arg |-> p]
    /\ ndial' = 1
    /\ made' = IF NewReturns(DialOk) THEN fn ELSE "failed"
    /\ prefix' = IF NewReturns(DialOk) THEN p ELSE prefix
    /\ IF DialOk
       THEN /\ socks' = Append(socks, [epoch |-> epoch, closed |-> FALSE])
            /\ conn' = Len(socks) + 1
       ELSE UNCHANGED <<socks, conn>>
    /\ UNCHANGED <<mu, up, epoch, wire, stdout, pc, cur, ncalls, panicked>>

\* New(prefix)
New(p) == Construct("New", p)

\* NewLogger(flags): New("") wrapped in a log.Logger with an empty prefix.
\* The flags modelled are 0 (no header).
NewLogger == Construct("NewLogger", <<>>)

\* A Sysdlog the caller declares itself (the type is exported): no prefix, a
\* nil conn, an unlocked mutex.
ZeroValue ==
    /\ made = "none"
    /\ made' = "zero"
    /\ UNCHANGED <<ctor, prefix, conn, mu, socks, up, epoch, wire, stdout, pc, cur,
                   ncalls, ndial, panicked>>

\* Close: sdl.conn.Close(), without the mutex; the field keeps the handle.
Close ==
    /\ made \in {"New", "zero"}
    /\ ~panicked
    /\ IF conn = 0
       THEN /\ panicked' = TRUE
            /\ UNCHANGED socks
       ELSE /\ socks' = [socks EXCEPT ![conn].closed = TRUE]
            /\ UNCHANGED panicked
    /\ UNCHANGED <<made, ctor, prefix, conn, mu, up, epoch, wire, stdout, pc, cur,
                   ncalls, ndial>>

\* A goroutine enters one of the logging methods with message m (for the
\* formatted methods, m is what fmt.Sprintf returned) and calls writeRetry.
Call(t, nm, m) ==
    /\ \/ made \in {"New", "zero"}
       \/ made = "NewLogger" /\ nm = "Write" /\ HasSuffixNL(m)
    /\ ~panicked
    /\ pc[t] = "idle"
    /\ ncalls < MaxCalls
    /\ ncalls' = ncalls + 1
    /\ cur' = [cur EXCEPT ![t] = [NoCall EXCEPT !.name = nm, !.m = m,
                                                !.k = ncalls + 1]]
    /\ pc' = [pc EXCEPT ![t] = "lock"]
    /\ UNCHANGED <<made, ctor, prefix, conn, mu, socks, up, epoch, wire, stdout,
                   ndial, panicked>>

\* A goroutine enters one of the formatted methods: fmt.Sprintf(format, v...)
\* is the message.
CallF(t, nm, f, a) ==
    /\ Method(nm).f
    /\ FormatModelled(f)
    /\ Call(t, nm, Sprintf(f, a))

\* log.Logger.Output with flags 0 and an empty prefix: the line is s, with a
\* newline appended when s does not end in one, handed to Write.
LogLine(s) == s \o (IF HasSuffixNL(s) THEN <<>> ELSE <<"\n">>)

\* A print through the log.Logger that NewLogger returned.
LoggerPrint(t, s) ==
    /\ made = "NewLogger"
    /\ Call(t, "Write", LogLine(s))

\* writeRetry line 181: sdl.mu.Lock()
Lock(t) ==
    /\ pc[t] = "lock"
    /\ ~panicked
    /\ CanLock(t)
    /\ mu' = t
    /\ pc' = [pc EXCEPT ![t] = "check"]
    /\ cur' = [cur EXCEPT ![t].h0 = conn, ![t].st0 = Status(conn),
                          ![t].sawUp = up, ![t].sawDown = ~up]
    /\ UNCHANGED <<made, ctor, prefix, conn, socks, up, epoch, wire, stdout, ncalls,
                   ndial, panicked>>

\* write (lines 201-211) by goroutine t on the stored handle: the debug line,
\* one conn.Write of the whole frame, and the result write returns.
WriteEffects(t) ==
    LET ok == ConnWriteOk(conn)
        fr == Frame(Method(cur[t].name).sev, prefix, cur[t].m)
    IN  /\ stdout' = Append(stdout, PrefixLine(prefix))
        /\ wire' = IF ok THEN Append(wire, [frame |-> fr, by |-> cur[t].k])
                         ELSE wire

\* writeRetry lines 185-189: the first write, when there is a handle.
FirstWrite(t) ==
    /\ pc[t] = "check"
    /\ ~panicked
    /\ Len(cur[t].ev) < MaxSteps
    /\ IF conn # 0
       THEN LET ok == ConnWriteOk(conn)
                r == WriteResult(cur[t].m, ok)
                to == AfterFirst(TRUE, r)
            IN  /\ WriteEffects(t)
                /\ pc' = [pc EXCEPT ![t] = to]
                /\ cur' = [cur EXCEPT
                             ![t].ev = Append(@, WriteEv(conn, ok)),
                             ![t].n = IF to = "ret" THEN r.n ELSE @,
                             ![t].err = IF to = "ret" THEN r.err ELSE @]
       ELSE /\ pc' = [pc EXCEPT ![t] = AfterFirst(FALSE, [n |-> 0, err |-> "nil"])]
            /\ UNCHANGED <<wire, stdout, cur>>
    /\ UNCHANGED <<made, ctor, prefix, conn, mu, socks, up, epoch, ncalls, ndial,
                   panicked>>

\* writeRetry lines 193-195 and connect (lines 214-223).
Connect(t) ==
    /\ pc[t] = "connect"
    /\ ~panicked
    /\ Len(cur[t].ev) < MaxSteps
    /\ ndial' = ndial + 1
    /\ pc' = [pc EXCEPT ![t] = AfterConnect(DialOk)]
    /\ IF DialOk
       THEN /\ socks' = Append(socks, [epoch |-> epoch, closed |-> FALSE])
            /\ conn' = Len(socks) + 1
            /\ cur' = [cur EXCEPT ![t].ev = Append(@, DialEv(Len(socks) + 1, TRUE))]
       ELSE /\ cur' = [cur EXCEPT ![t].ev = Append(@, DialEv(0, FALSE)),
                                  ![t].n = ConnectFail.n,
                                  ![t].err = ConnectFail.err]
            /\ UNCHANGED <<socks, conn>>
    /\ UNCHANGED <<made, ctor, prefix, mu, up, epoch, wire, stdout, ncalls, panicked>>

\* writeRetry line 198: the write after a reconnect, returned as it is.
RetryWrite(t) ==
    /\ pc[t] = "retry"
    /\ ~panicked
    /\ Len(cur[t].ev) < MaxSteps
    /\ LET ok == ConnWriteOk(conn)
           r == WriteResult(cur[t].m, ok)
       IN  /\ WriteEffects(t)
           /\ pc' = [pc EXCEPT ![t] = AfterRetry(r)]
           /\ cur' = [cur EXCEPT ![t].ev = Append(@, WriteEv(conn, ok)),
                                 ![t].n = r.n, ![t].err = r.err]
    /\ UNCHANGED <<made, ctor, prefix, conn, mu, socks, up, epoch, ncalls, ndial,
                   panicked>>

\* The return of writeRetry: the deferred Unlock, then the method returns.
Return(t) ==
    /\ pc[t] = "ret"
    /\ ~panicked
    /\ mu' = MuAfterReturn(t, cur[t].err)
    /\ pc' = [pc EXCEPT ![t] = "idle"]
    /\ cur' = [cur EXCEPT ![t].ret = TRUE]
    /\ UNCHANGED <<made, ctor, prefix, conn, socks, up, epoch, wire, stdout, ncalls,
                   ndial, panicked>>

\* The daemon behind /dev/log goes away: its socket is closed.
DaemonStop ==
    /\ up
    /\ ~panicked
    /\ up' = FALSE
    /\ cur' = [t \in Threads |->
                 IF InCall(t) THEN [cur[t] EXCEPT !.sawDown = TRUE] ELSE cur[t]]
    /\ UNCHANGED <<made, ctor, prefix, conn, mu, socks, epoch, wire, stdout, pc,
                   ncalls, ndial, panicked>>

\* A new daemon binds /dev/log.
DaemonStart ==
    /\ ~up
    /\ ~panicked
    /\ epoch < MaxEpoch
    /\ up' = TRUE
    /\ epoch' = epoch + 1
    /\ cur' = [t \in Threads |->
                 IF InCall(t) THEN [cur[t] EXCEPT !.sawUp = TRUE] ELSE cur[t]]
    /\ UNCHANGED <<made, ctor, prefix, conn, mu, socks, wire, stdout, pc, ncalls,
                   ndial, panicked>>

Next ==
    \/ \E p \in Prefixes : New(p)
    \/ ZeroValue
    \/ Close
    \/ \E t \in Threads, c \in ConcCalls : Call(t, c.name, c.m)
    \/ \E t \in Threads : Lock(t)
    \/ \E t \in Threads : FirstWrite(t)
    \/ \E t \in Threads : Connect(t)
    \/ \E t \in Threads : RetryWrite(t)
    \/ \E t \in Threads : Return(t)
    \/ DaemonStop
    \/ DaemonStart

Spec == Init /\ [][Next]_vars

\* One goroutine, every method and constructor, the richer inputs. The
\* daemon may go away (so that constructors and dials fail); its coming back
\* is left to Spec.
SeqNext ==
    \/ \E p \in SeqPrefixes : New(p)
    \/ NewLogger
    \/ ZeroValue
    \/ \E c \in SeqCalls : Call(1, c.name, c.m)
    \/ \E c \in SeqFCalls : CallF(1, c.name, c.f, c.a)
    \/ \E s \in SeqMsgs : LoggerPrint(1, s)
    \/ Lock(1)
    \/ FirstWrite(1)
    \/ Connect(1)
    \/ RetryWrite(1)
    \/ Return(1)
    \/ DaemonStop

SeqSpec == Init /\ [][SeqNext]_vars

\* Fair scheduling: a goroutine that can take its next step in writeRetry
\* takes it, and a goroutine waiting in Lock gets the mutex if it is free
\* again and again (sync.Mutex hands over to starved waiters).
\* Whether a call returns does not depend on what it logs, so the fair
\* specification draws one call and one prefix.
LiveNext ==
    \/ New(<<>>)
    \/ ZeroValue
    \/ Close
    \/ \E t \in Threads : Call(t, "Info", <<"a">>)
    \/ \E t \in Threads : Lock(t)
    \/ \E t \in Threads : FirstWrite(t)
    \/ \E t \in Threads : Connect(t)
    \/ \E t \in Threads : RetryWrite(t)
    \/ \E t \in Threads : Return(t)
    \/ DaemonStop
    \/ DaemonStart

FairSpec ==
    /\ Init
    /\ [][LiveNext]_vars
    /\ \A t \in Threads :
         /\ SF_vars(Lock(t))
         /\ WF_vars(FirstWrite(t) \/ Connect(t) \/ RetryWrite(t) \/ Return(t))

\* ------------------------------------------------------------------ history
Count(ev, kind) == Cardinality({i \in DOMAIN ev : ev[i].k = kind})
Writes(t) == Count(cur[t].ev, "write")
Dials(t) == Count(cur[t].ev, "dial")

\* The datagrams on the wire that call number k sent.
SentBy(k) == {j \in DOMAIN wire : wire[j].by = k}

\* The frame the call of goroutine t is to emit.
FrameOf(t) == Frame(Method(cur[t].name).sev, prefix, cur[t].m)

\* Goroutine t is returning from writeRetry (its result is fixed, it still
\* holds whatever it locked).
Returning(t) == pc[t] = "ret"

\* Nothing has gone wrong with the endpoint or the handle so far: the Sysdlog
\* came from New, the first daemon is still bound, nothing was closed.
Healthy ==
    /\ made = "New"
    /\ up
    /\ epoch = 1
    /\ \A i \in DOMAIN socks : ~socks[i].closed

\* ------------------------------------------------------------------ claims

\* C1: a logging call that returns success has handed its whole frame to the
\* transport in exactly one write; when the transport did not take the frame,
\* the call returns an error.
C1_SuccessMeansHandedOver ==
    \A t \in Threads :
        (Returning(t) /\ cur[t].err = "nil") =>
            /\ Cardinality(SentBy(cur[t].k)) = 1
            /\ \A j \in SentBy(cur[t].k) : wire[j].frame = FrameOf(t)

\* C2: a call that finds the stored handle invalidated (its daemon is gone)
\* while a daemon is reachable for the whole call succeeds: it dials exactly
\* once, stores the new handle and delivers the frame on it.
C2_ReconnectSucceeds ==
    \A t \in Threads :
        (Returning(t) /\ cur[t].st0 = "stale" /\ ~cur[t].sawDown) =>
            /\ cur[t].err = "nil"
            /\ Dials(t) = 1
            /\ conn # cur[t].h0
            /\ \E i \in DOMAIN cur[t].ev :
                 /\ cur[t].ev[i] = WriteEv(conn, TRUE)
            /\ \E j \in SentBy(cur[t].k) : wire[j].frame = FrameOf(t)

\* C3: a call that finds the stored handle invalidated while no daemon is
\* reachable during the whole call returns the connection error, after one
\* failed write and one failed dial.
C3_UnreachableFails ==
    \A t \in Threads :
        (Returning(t) /\ cur[t].st0 = "stale" /\ ~cur[t].sawUp) =>
            /\ cur[t].err = "dial"
            /\ cur[t].ev = <<WriteEv(cur[t].h0, FALSE), DialEv(0, FALSE)>>

\* C4: a logging call made after Close never returns success without its
\* frame having reached the endpoint.
C4_NoSilentSuccessAfterClose ==
    \A t \in Threads :
        (Returning(t) /\ cur[t].st0 = "closed" /\ cur[t].err = "nil") =>
            \E j \in SentBy(cur[t].k) : wire[j].frame = FrameOf(t)

\* C5: with a healthy endpoint, the daemon has received exactly one datagram
\* for every call that has done its write and none for the others, and the
\* datagram of a call is the complete frame of that call.
C5_OneFramePerCall ==
    Healthy =>
        /\ Len(wire) = ncalls - Cardinality({t \in Threads : pc[t] \in {"lock", "check"}})
        /\ \A k \in 1..ncalls : Cardinality(SentBy(k)) <= 1
        /\ \A j \in DOMAIN wire : wire[j].by \in 1..ncalls
        /\ \A t \in Threads :
             (Returning(t) \/ cur[t].ret) =>
                 /\ Cardinality(SentBy(cur[t].k)) = 1
                 /\ \A j \in SentBy(cur[t].k) : wire[j].frame = FrameOf(t)

\* C5 witness: a call that began first is returning after a call that began
\* later has already returned, both frames delivered.
C5_Witness ==
    /\ Healthy
    /\ Len(wire) = 2
    /\ \E t, u \in Threads :
         /\ Returning(t)
         /\ cur[u].ret
         /\ cur[u].k > cur[t].k

\* C6: at most one goroutine is between Lock and the return of writeRetry,
\* and that goroutine holds the mutex.
C6_OneInSequence ==
    /\ Cardinality({t \in Threads : InCall(t) \/ Returning(t)}) <= 1
    /\ \A t \in Threads : (InCall(t) \/ Returning(t)) => mu = t

\* C6 witness: one goroutine is in the reconnect branch while another waits
\* in Lock.
C6_Witness ==
    \E t, u \in Threads : pc[t] = "connect" /\ pc[u] = "lock"

\* C7: the stored handle is replaced and a connection is closed only by the
\* goroutine that holds the mutex: while a goroutine is between Lock and the
\* end of its write, a step that does either is a step of that goroutine.
C7_MutationUnderGuard ==
    [][ ( /\ \E t \in Threads : InCall(t)
          /\ \/ conn' # conn
             \/ \E i \in DOMAIN socks : socks'[i].closed # socks[i].closed )
        => (mu # 0 /\ mu' = mu /\ pc'[mu] # pc[mu]) ]_vars

\* C8: the stored handle is nil or refers to a connection that is not closed.
C8_HandleOpenOrAbsent ==
    conn = 0 \/ ~socks[conn].closed

\* C9: a call does at most two writes and at most one dial.
C9_BoundedAttempts ==
    \A t \in Threads : Writes(t) <= 2 /\ Dials(t) <= 1

\* C9 witness: a call returns after its dial failed, and another after a dial
\* and a write.
C9_Witness ==
    \E t, u \in Threads :
        /\ cur[t].ret /\ Dials(t) = 1 /\ Writes(t) = 0
        /\ Returning(u) /\ Dials(u) = 1 /\ Writes(u) = 1

\* C10: under fair scheduling every call that has begun returns (unless the
\* process has died), and when no goroutine is inside writeRetry the mutex is
\* unlocked.
C10_CallsReturn ==
    /\ \A t \in Threads :
         [](pc[t] = "lock" => <>((pc[t] = "idle" /\ cur[t].ret) \/ panicked))
    /\ [](( \A t \in Threads : ~InCall(t) /\ ~Returning(t)) => mu = 0)

\* C10 witness: a call has returned after an earlier call failed.
C10_Witness ==
    \E t, u \in Threads :
        /\ cur[t].ret /\ cur[t].err = "dial"
        /\ cur[u].ret /\ cur[u].k > cur[t].k

\* ------------------------------------------------------------------ claims
\* (sequential specification)

\* The tag each method is to use, as a digit.
TagDigit(nm) ==
    CASE nm \in {"Emerg", "Emergf"}     -> "0"
      [] nm \in {"Alert", "Alertf"}     -> "1"
      [] nm \in {"Crit", "Critf"}       -> "2"
      [] nm \in {"Err", "Errf", "Write"} -> "3"
      [] nm \in {"Warning", "Warningf"} -> "4"
      [] nm \in {"Notice", "Noticef"}   -> "5"
      [] nm \in {"Info", "Infof"}       -> "6"
      [] nm \in {"Debug", "Debugf"}     -> "7"

EndsNL(x) == Len(x) > 0 /\ x[Len(x)] = "\n"
EndsTwoNL(x) == Len(x) > 1 /\ x[Len(x)] = "\n" /\ x[Len(x) - 1] = "\n"

\* The datagrams of the call goroutine t is returning from.
FramesOf(t) == {wire[j].frame : j \in SentBy(cur[t].k)}

\* C11: a constructor step dials exactly once; with the endpoint down it
\* returns the error and no Sysdlog, with the endpoint up a Sysdlog whose
\* handle is present and open and whose prefix is the argument; NewLogger
\* fails exactly when its New fails.
C11_ConstructEager ==
    [][ (made' # made /\ made' # "zero") =>
          /\ ndial' = 1
          /\ IF up
             THEN /\ made' = ctor'.fn
                  /\ conn' # 0
                  /\ conn' \in DOMAIN socks'
                  /\ socks'[conn'] = [epoch |-> epoch, closed |-> FALSE]
                  /\ prefix' = ctor'.arg
                  /\ ctor'.fn = "NewLogger" => prefix' = <<>>
             ELSE /\ made' = "failed"
                  /\ conn' = 0
                  /\ socks' = socks ]_vars

\* C11 witness: NewLogger has failed, the endpoint being down.
C11_Witness ==
    made = "failed" /\ ctor.fn = "NewLogger" /\ ndial = 1 /\ conn = 0

\* C12 (as claimed): every frame ends in exactly one newline, never in two.
C12_ExactlyOneTrailingNewline ==
    \A t \in Threads : Returning(t) =>
        \A fr \in FramesOf(t) : EndsNL(fr) /\ ~EndsTwoNL(fr)

\* C12 (amended): one newline is appended when the message does not end in
\* one, none when it does, so every frame ends in a newline; a frame ends in
\* two only when the prefix followed by the message does, or when the message
\* is empty and the prefix ends in a newline.
C12_NewlineAppendedIfAbsent ==
    \A t \in Threads : Returning(t) =>
        \A fr \in FramesOf(t) :
            LET m == cur[t].m
                base == Len(LOG_ERR) + 1 + Len(prefix) + Len(m)
            IN  /\ EndsNL(fr)
                /\ Len(fr) = IF EndsNL(m) THEN base ELSE base + 1
                /\ SubSeq(fr, base - Len(m) + 1, base) = m
                /\ EndsTwoNL(fr) =>
                     (EndsTwoNL(prefix \o m) \/ (m = <<>> /\ EndsNL(prefix)))

\* C12 witness: a message that ends in two newlines has been delivered, and
\* its frame ends in two.
C12_Witness ==
    \E t \in Threads :
        /\ Returning(t)
        /\ cur[t].m = <<"a", "\n", "\n">>
        /\ \E fr \in FramesOf(t) : EndsTwoNL(fr)

\* C13: the frame of every method and formatted method begins with the tag
\* of that method's severity and one space.
C13_OwnSeverityTag ==
    \A t \in Threads : Returning(t) =>
        \A fr \in FramesOf(t) :
            /\ Len(fr) >= 4
            /\ SubSeq(fr, 1, 4) = <<"<", TagDigit(cur[t].name), ">", " ">>

\* C13 witness: every one of the seventeen methods can deliver; here Debugf.
C13_Witness ==
    \E t \in Threads :
        Returning(t) /\ cur[t].name = "Debugf" /\ FramesOf(t) # {}

\* C14: the frame is the tag, a space, the prefix given to the constructor,
\* the message, and a newline when the message lacks one; the stored prefix
\* is the constructor's argument at every call.
C14_FrameIsTagPrefixMessage ==
    /\ made \in {"New", "NewLogger", "zero"} => prefix = ctor.arg
    /\ \A t \in Threads : Returning(t) =>
         \A fr \in FramesOf(t) :
             /\ fr = <<"<", TagDigit(cur[t].name), ">", " ">> \o ctor.arg \o cur[t].m
                       \o (IF EndsNL(cur[t].m) THEN <<>> ELSE <<"\n">>)
             /\ ( /\ ctor.arg = <<"[", "a", "p", "p", "]", " ">>
                  /\ cur[t].name = "Info"
                  /\ cur[t].m = <<"h", "e", "l", "l", "o">> )
                => fr = <<"<", "6", ">", " ", "[", "a", "p", "p", "]", " ",
                          "h", "e", "l", "l", "o", "\n">>

\* C14 witness: the second call on New("[app] ") is Info("hello"), delivered.
C14_Witness ==
    \E t \in Threads :
        /\ Returning(t)
        /\ cur[t].k = 2
        /\ ctor.arg = <<"[", "a", "p", "p", "]", " ">>
        /\ cur[t].name = "Info"
        /\ cur[t].m = <<"h", "e", "l", "l", "o">>
        /\ FramesOf(t) # {}

\* C15: Write frames with <3> whatever the bytes, takes the same path through
\* writeRetry as the other methods (a dial first only when there is no handle)
\* and on success returns the length of its input.
C15_WriteIsErrSeverity ==
    \A t \in Threads : (Returning(t) /\ cur[t].name = "Write") =>
        /\ \A fr \in FramesOf(t) : SubSeq(fr, 1, 4) = <<"<", "3", ">", " ">>
        /\ cur[t].err = "nil" => cur[t].n = Len(cur[t].m)
        /\ cur[t].err = "nil" => Writes(t) = 1
        /\ Dials(t) = IF cur[t].st0 = "nil" THEN 1 ELSE 0

\* C15 witness: Write on a Sysdlog without handle has dialed and delivered a
\* message that had no newline.
C15_Witness ==
    \E t \in Threads :
        /\ Returning(t)
        /\ cur[t].name = "Write"
        /\ cur[t].st0 = "nil"
        /\ cur[t].m = <<"a">>
        /\ cur[t].n = 1
        /\ FramesOf(t) # {}

\* ------------------------------------------------------------------ claims
\* (concurrent specification)

\* C16: a logging call made after Close dials a new connection.
C16_ReconnectAfterClose ==
    \A t \in Threads :
        (Returning(t) /\ cur[t].st0 = "closed") => Dials(t) >= 1

\* C17: a call whose dial failed returns 0 and the connection error, does no
\* write after the dial, and leaves in sdl.conn the handle it found.
C17_FailedDialLeavesHandle ==
    \A t \in Threads :
        ( /\ Returning(t) \/ cur[t].ret
          /\ \E i \in DOMAIN cur[t].ev : cur[t].ev[i].k = "dial" /\ ~cur[t].ev[i].ok )
        => /\ cur[t].n = 0
           /\ cur[t].err = "dial"
           /\ cur[t].ev[Len(cur[t].ev)] = DialEv(0, FALSE)
           /\ Returning(t) =>
                /\ conn = cur[t].h0
                /\ Status(conn) = "closed" <=> cur[t].st0 = "closed"

\* C17 witness: a call is returning right after its only step, a failed dial.
C17_Witness ==
    \E t \in Threads :
        /\ Returning(t)
        /\ cur[t].ev = <<DialEv(0, FALSE)>>
        /\ cur[t].err = "dial"

\* C18: a call that finds no handle writes nothing before it dials; when the
\* dial fails it returns the error, otherwise it stores the new handle, does
\* exactly one write on it and returns that write's result.
C18_DisconnectedDialsFirst ==
    \A t \in Threads : cur[t].st0 = "nil" =>
        /\ pc[t] \in {"check", "connect"} => cur[t].ev = <<>>
        /\ pc[t] = "retry" => (conn # 0 /\ cur[t].ev = <<DialEv(conn, TRUE)>>)
        /\ Returning(t) =>
             \/ /\ cur[t].ev = <<DialEv(0, FALSE)>>
                /\ conn = 0
                /\ cur[t].err = "dial"
             \/ /\ Len(cur[t].ev) = 2
                /\ conn # 0
                /\ cur[t].ev[1] = DialEv(conn, TRUE)
                /\ cur[t].ev[2].k = "write" /\ cur[t].ev[2].c = conn
                /\ cur[t].err = "nil"
                /\ cur[t].n = Len(cur[t].m)
                /\ cur[t].ev[2].ok <=> SentBy(cur[t].k) # {}

\* C18 witness: a call that found no handle is returning after a dial and one
\* write, while the daemon went away in between (the write delivered nothing).
C18_Witness ==
    \E t \in Threads :
        /\ Returning(t)
        /\ cur[t].st0 = "nil"
        /\ Len(cur[t].ev) = 2
        /\ ~cur[t].ev[2].ok

\* C19: on a Sysdlog that New returned, no call ever reaches connect: the
\* dial of New is the only one and the handle of New stays stored.
C19_NoReconnectAfterNew ==
    made = "New" =>
        /\ ndial = 1
        /\ Len(socks) = 1
        /\ conn = 1
        /\ \A t \in Threads : Dials(t) = 0 /\ pc[t] \notin {"connect", "retry"}

\* C19 witness: on a Sysdlog from New, a call that found the handle stale has
\* returned and a call that found it closed is returning.
C19_Witness ==
    /\ made = "New"
    /\ \E t, u \in Threads :
         /\ cur[t].ret /\ cur[t].st0 = "stale"
         /\ Returning(u) /\ cur[u].st0 = "closed"

\* C20: on a Sysdlog that New returned, every call returns a nil error and
\* the length of its message, whatever the state of the connection.
C20_AlwaysNil ==
    made = "New" =>
        \A t \in Threads : (Returning(t) \/ cur[t].ret) =>
            /\ cur[t].err = "nil"
            /\ cur[t].n = Len(cur[t].m)

\* C20 witness: Write is returning nil and its input's length although the
\* daemon was down during the whole call and nothing was delivered.
C20_Witness ==
    /\ made = "New"
    /\ \E t \in Threads :
         /\ Returning(t)
         /\ cur[t].name = "Write"
         /\ cur[t].st0 = "stale"
         /\ ~cur[t].sawUp
         /\ SentBy(cur[t].k) = {}
         /\ cur[t].err = "nil"
         /\ cur[t].n = 2

====
